---- MODULE Spec2Model ----
(***************************************************************************)
(* Model of package gpio (src/gpio/gpio.go).                               *)
(*                                                                         *)
(* The package declares three integer-backed enumerations (Value,          *)
(* Direction, EdgeSensitivity), their String methods, and a set of         *)
(* capability interfaces.  The interfaces have no implementation in the    *)
(* package, so the only executable code is the three String methods; the   *)
(* model is a caller that invokes them on arbitrary underlying integers    *)
(* and records the outcome of the two most recent calls.                   *)
(***************************************************************************)
EXTENDS Integers, Sequences, FiniteSets, TLC

\* Largest magnitude of the underlying integer handed to a String method.
MaxTag == 5

\* The underlying integers a caller can forge with a conversion such as
\* Value(n): Go's int, cut to a window around the declared tags.
Tags == (0 - MaxTag)..MaxTag

\* const ( Low Value = 0; High Value = 1 )
Low == 0
High == 1

\* const ( In Direction = 0; Out Direction = 1 )
In == 0
Out == 1

\* const ( NoEdges = 0; RisingEdge = 1; FallingEdge = 2; BothEdges = 3 )
NoEdges == 0
RisingEdge == 1
FallingEdge == 2
BothEdges == 3

\* The outcome of a call: a normal return carrying the returned string, or a
\* panic carrying the panic value.
Return(s) == [outcome |-> "return", text |-> s]
Panic(msg) == [outcome |-> "panic", text |-> msg]

\* A plausible slip: the default arm returns the zero string.
ValueStringNoPanic(value) ==
    CASE value = Low -> Return("Low")
      [] value = High -> Return("High")
      [] OTHER -> Return("")

\* func (value Value) String() string
ValueString(value) ==
    CASE value = Low -> Return("Low")
      [] value = High -> Return("High")
      [] OTHER -> Panic("Cannot String Invalid Value")

\* A plausible slip: both arms return the same literal.
DirectionStringSameName(direction) ==
    CASE direction = In -> Return("In")
      [] direction = Out -> Return("In")
      [] OTHER -> Panic("Cannot String Invalid Direction")

\* func (direction Direction) String() string
DirectionString(direction) ==
    CASE direction = In -> Return("In")
      [] direction = Out -> Return("Out")
      [] OTHER -> Panic("Cannot String Invalid Direction")

\* A plausible slip: the RisingEdge and FallingEdge literals are exchanged.
EdgeSensitivityStringSwapped(sensitivity) ==
    CASE sensitivity = NoEdges -> Return("NoEdges")
      [] sensitivity = BothEdges -> Return("BothEdges")
      [] sensitivity = RisingEdge -> Return("FallingEdge")
      [] sensitivity = FallingEdge -> Return("RisingEdge")
      [] OTHER -> Panic("Cannot String Invalid EdgeSensitivity")

\* func (sensitivity EdgeSensitivity) String() string
\* The arms are tried in the order the switch lists them.
EdgeSensitivityString(sensitivity) ==
    CASE sensitivity = NoEdges -> Return("NoEdges")
      [] sensitivity = BothEdges -> Return("BothEdges")
      [] sensitivity = RisingEdge -> Return("RisingEdge")
      [] sensitivity = FallingEdge -> Return("FallingEdge")
      [] OTHER -> Panic("Cannot String Invalid EdgeSensitivity")

\* One recorded call: the receiver's type, its underlying integer, and the
\* outcome of String on it.
Call(type, tag, result) ==
    [type |-> type, tag |-> tag, outcome |-> result.outcome, text |-> result.text]

\* No call made yet.
NoCall == [type |-> "none", tag |-> 0, outcome |-> "none", text |-> ""]

VARIABLES last, prev

vars == <<last, prev>>

Init ==
    /\ last = NoCall
    /\ prev = NoCall

\* A caller evaluates Value(n).String().
CallValueString ==
    \E n \in Tags :
        /\ last' = Call("Value", n, ValueString(n))
        /\ prev' = last

\* A caller evaluates Direction(n).String().
CallDirectionString ==
    \E n \in Tags :
        /\ last' = Call("Direction", n, DirectionString(n))
        /\ prev' = last

\* A caller evaluates EdgeSensitivity(n).String().
CallEdgeSensitivityString ==
    \E n \in Tags :
        /\ last' = Call("EdgeSensitivity", n, EdgeSensitivityString(n))
        /\ prev' = last

Next ==
    \/ CallValueString
    \/ CallDirectionString
    \/ CallEdgeSensitivityString

Spec == Init /\ [][Next]_vars

\* ---------------------------------------------------------------------
\* Properties of the String methods.

\* The underlying integers of the declared tags of each enumeration.
ValidTags(type) ==
    CASE type = "Value" -> {Low, High}
      [] type = "Direction" -> {In, Out}
      [] type = "EdgeSensitivity" -> {NoEdges, RisingEdge, FallingEdge, BothEdges}
      [] OTHER -> {}

\* The documented name of each declared tag, as <<type, tag, name>>.
DocumentedNames ==
    { <<"Value", Low, "Low">>, <<"Value", High, "High">>,
      <<"Direction", In, "In">>, <<"Direction", Out, "Out">>,
      <<"EdgeSensitivity", NoEdges, "NoEdges">>,
      <<"EdgeSensitivity", RisingEdge, "RisingEdge">>,
      <<"EdgeSensitivity", FallingEdge, "FallingEdge">>,
      <<"EdgeSensitivity", BothEdges, "BothEdges">> }

\* Re-deriving a tag from a string: the tags of the type whose documented
\* name is that string.
TagsNamed(type, name) == { d[2] : d \in { e \in DocumentedNames : e[1] = type /\ e[3] = name } }

\* C1: String on a valid tag returns normally (no panic), and the returned
\* string is exactly the tag's documented name: Low -> "Low", High -> "High",
\* In -> "In", Out -> "Out", NoEdges -> "NoEdges", RisingEdge -> "RisingEdge",
\* FallingEdge -> "FallingEdge", BothEdges -> "BothEdges".
C1_ValidTagsReturnDocumentedName ==
    \A d \in DocumentedNames :
        (last.type = d[1] /\ last.tag = d[2]) =>
            (last.outcome = "return" /\ last.text = d[3])

\* C1 witness: String has been called on the valid tag FallingEdge and has
\* returned.
C1_Witness ==
    /\ last.type = "EdgeSensitivity"
    /\ last.tag = FallingEdge
    /\ last.outcome = "return"

\* C2: String on an underlying integer outside the closed tag set (Value and
\* Direction: anything but 0 or 1, negatives included; EdgeSensitivity:
\* anything but 0..3) panics; it never returns a string.
C2_InvalidTagsPanic ==
    /\ (last.type \in {"Value", "Direction"} /\ last.tag \notin {0, 1}) =>
            last.outcome = "panic"
    /\ (last.type = "EdgeSensitivity" /\ last.tag \notin 0..3) =>
            last.outcome = "panic"

\* C2 witness: String has been called on Value(-1), a negative integer
\* outside the tag set, after a call on EdgeSensitivity(4).
C2_Witness ==
    /\ last.type = "Value"
    /\ last.tag = 0 - 1
    /\ last.outcome = "panic"
    /\ prev.type = "EdgeSensitivity"
    /\ prev.tag = 4
    /\ prev.outcome = "panic"

\* C8: within one enumeration String is injective on the valid tags.  The
\* string returned for a valid tag t is a documented name from which exactly
\* t is re-derived, and two calls on valid tags of the same enumeration
\* return the same string exactly when the tags are the same (so repeating
\* a conversion yields the same string, and distinct tags never share one).
C8_StringInjectiveOnValidTags ==
    /\ (last.tag \in ValidTags(last.type)) =>
            TagsNamed(last.type, last.text) = {last.tag}
    /\ ( /\ last.type = prev.type
         /\ last.tag \in ValidTags(last.type)
         /\ prev.tag \in ValidTags(prev.type) ) =>
            ((last.text = prev.text) <=> (last.tag = prev.tag))

\* C8 witness: two consecutive conversions of distinct valid tags of one
\* enumeration, both returned.
C8_Witness ==
    /\ prev.type = "Direction" /\ prev.tag = In /\ prev.outcome = "return"
    /\ last.type = "Direction" /\ last.tag = Out /\ last.outcome = "return"

====
